---- MODULE Spec2Model ----
(***************************************************************************)
(* Model of dlls/usp10/opentype.c: the lazily filled per-context cache of  *)
(* the raw cmap and GDEF font tables (ScriptCache), the cmap format 12     *)
(* lookup OpenType_CMAP_GetGlyphIndex and the GDEF glyph classification    *)
(* behind OpenType_GDEF_UpdateGlyphProps.                                  *)
(*                                                                         *)
(* Tables are sequences of bytes, read the way the C code reads them: a    *)
(* host (little-endian) load of a WORD or DWORD at a struct offset,        *)
(* followed by the byte swap of GET_BE_WORD / GET_BE_DWORD.  A font is     *)
(* described structurally (records, groups, class arrays) and encoded to   *)
(* big-endian bytes by the font data provider.                             *)
(***************************************************************************)
EXTENDS Integers, Sequences, FiniteSets, TLC

VARIABLES
    font,                 \* the font selected in the DC: its real tables
    heap,                 \* the byte found in memory the program never wrote
    faults,               \* whether GetFontData can fail on a table the font has
    CMAP_Table,           \* psc->CMAP_Table
    CMAP_format12_Table,  \* psc->CMAP_format12_Table
    GDEF_Table,           \* psc->GDEF_Table
    calls,                \* GetFontData calls made so far, per tag
    lastFetch,            \* outcome of the latest fetch attempt, per tag
    lastOp                \* the latest request, its arguments and results

vars == <<font, heap, faults, CMAP_Table, CMAP_format12_Table, GDEF_Table, calls,
          lastFetch, lastOp>>

-----------------------------------------------------------------------------
(* Bounds of the model *)

MaxCalls == 3     \* GetFontData calls per tag before the model stops fetching
MaxGroups == 2    \* segment groups per generated format 12 subtable
MaxRanges == 2    \* class ranges per generated format 2 class definition
MaxClasses == 2   \* class values per generated format 1 class definition
MaxGlyphs == 2    \* glyphs per annotated run
MaxChars == 2     \* characters per annotated run
ShortBy == 2      \* bytes a short read leaves unwritten

-----------------------------------------------------------------------------
(* Program constants *)

GDI_ERROR == -1    \* 0xFFFFFFFF, held in the int that receives the length
GGI_MARK_NONEXISTING_GLYPHS == 1
BaseGlyph == 1
LigatureGlyph == 2
MarkGlyph == 3
ComponentGlyph == 4

Tags == {"cmap", "GDEF"}

\* A null pointer, a pointer to a heap buffer, a pointer into the cmap buffer.
NULL == [valid |-> FALSE]
Buffer(bytes) == [valid |-> TRUE, bytes |-> bytes]
Pointer(off) == [valid |-> TRUE, off |-> off]

-----------------------------------------------------------------------------
(* Memory reads *)

\* The byte at offset off from the start of a buffer.  Past the end of the
\* buffer the read returns whatever the heap holds there.  Every byte of the
\* model is below 0x80 in the top byte of a DWORD, so that a DWORD is a
\* number below 2^31.
Byte(buf, off) == IF off < Len(buf) THEN buf[off + 1] ELSE heap

\* *(WORD *)(buf + off) and *(DWORD *)(buf + off): the bytes of the value
\* loaded, least significant first (the host is little-endian)
LoadWord(buf, off) == <<Byte(buf, off), Byte(buf, off + 1)>>
LoadDword(buf, off) ==
    <<Byte(buf, off), Byte(buf, off + 1), Byte(buf, off + 2), Byte(buf, off + 3)>>

\* The number a loaded value stands for
Value(x) ==
    IF Len(x) = 2 THEN x[1] + 256 * x[2]
    ELSE x[1] + 256 * x[2] + 65536 * x[3] + 16777216 * x[4]

RtlUshortByteSwap(x) == <<x[2], x[1]>>
RtlUlongByteSwap(x) == <<x[4], x[3], x[2], x[1]>>

GET_BE_WORD(x) == Value(RtlUshortByteSwap(x))
GET_BE_DWORD(x) == Value(RtlUlongByteSwap(x))

-----------------------------------------------------------------------------
(* The font behind the DC: the big-endian bytes of its tables *)

BE16(x) == <<x \div 256, x % 256>>
BE32(x) == <<x \div 16777216, (x \div 65536) % 256, (x \div 256) % 256, x % 256>>

RECURSIVE Concat(_)
Concat(ss) == IF ss = <<>> THEN <<>> ELSE Head(ss) \o Concat(Tail(ss))

\* One SegmentedCoverage group: startCharCode, endCharCode, startGlyphID
EncodeGroup(g) == BE32(g.startCharCode) \o BE32(g.endCharCode) \o BE32(g.startGlyphID)

\* A cmap subtable: format, reserved, length, language, nGroups, groups
SubtableLength(r) == 16 + 12 * Len(r.groups)
EncodeSubtable(r) ==
    BE16(r.format) \o BE16(0) \o BE32(SubtableLength(r)) \o BE32(0)
        \o BE32(Len(r.groups))
        \o Concat([j \in 1..Len(r.groups) |-> EncodeGroup(r.groups[j])])

RECURSIVE SubtableOffset(_, _)
SubtableOffset(records, i) ==
    IF i = 1 THEN 4 + 8 * Len(records)
    ELSE SubtableOffset(records, i - 1) + SubtableLength(records[i - 1])

\* The cmap table: version, numTables, the encoding records, the subtables
EncodeCmap(c) ==
    BE16(0) \o BE16(Len(c.records))
        \o Concat([i \in 1..Len(c.records) |->
                     BE16(c.records[i].platformID) \o BE16(c.records[i].encodingID)
                         \o BE32(SubtableOffset(c.records, i))])
        \o Concat([i \in 1..Len(c.records) |-> EncodeSubtable(c.records[i])])

\* A class definition subtable in format 1, format 2 or a format unknown here
EncodeClassDef(d) ==
    IF d.format = 1
    THEN BE16(1) \o BE16(d.startGlyph) \o BE16(Len(d.classes))
             \o Concat([j \in 1..Len(d.classes) |-> BE16(d.classes[j])])
    ELSE IF d.format = 2
    THEN BE16(2) \o BE16(Len(d.ranges))
             \o Concat([j \in 1..Len(d.ranges) |->
                          BE16(d.ranges[j].Start) \o BE16(d.ranges[j].End)
                              \o BE16(d.ranges[j].Class)])
    ELSE BE16(d.format) \o BE16(0)

\* The GDEF table: Version, GlyphClassDef, AttachList, LigCaretList,
\* MarkAttachClassDef, then the class definition when the font has one
EncodeGdef(d) ==
    BE32(65536) \o BE16(IF d.classDef THEN 12 ELSE 0) \o BE16(0) \o BE16(0) \o BE16(0)
        \o (IF d.classDef THEN EncodeClassDef(d) ELSE <<>>)

\* A font: what its cmap and GDEF tables and its BMP coverage say, and the
\* bytes of the two tables
Font(c, g, b) ==
    [cmap |-> c, gdef |-> g, bmp |-> b,
     data |-> [t \in Tags |->
                 IF t = "cmap" THEN (IF c.present THEN EncodeCmap(c) ELSE <<>>)
                 ELSE (IF g.present THEN EncodeGdef(g) ELSE <<>>)]]

HasTable(tag) == IF tag = "cmap" THEN font.cmap.present ELSE font.gdef.present
FontData(tag) == font.data[tag]

\* GetFontData(hdc, tag, 0, NULL, 0): the length of the table, or GDI_ERROR
\* when the font has no such table or the call fails
GetFontDataLength(tag) ==
    IF HasTable(tag)
    THEN {Len(FontData(tag))} \cup (IF faults THEN {GDI_ERROR} ELSE {})
    ELSE {GDI_ERROR}

\* The answers GetFontData may give to the length query of a request.  A
\* request that finds the table in the cache does not ask, and one answer
\* stands for all.
LengthAnswers(tag, cached) ==
    IF cached THEN {CHOOSE length \in GetFontDataLength(tag) : TRUE}
    ELSE GetFontDataLength(tag)

\* The bytes a fill call may copy: none (the call fails), all but the last
\* ShortBy (a short read), all of them
FillCounts(length) ==
    IF length = GDI_ERROR THEN {0}
    ELSE IF ~faults THEN {length}
    ELSE {0, length} \cup (IF length > ShortBy THEN {length - ShortBy} ELSE {})

FillAnswers(length, cached) ==
    IF cached THEN {CHOOSE k \in FillCounts(length) : TRUE} ELSE FillCounts(length)

\* HeapAlloc(GetProcessHeap(), 0, length), taken to succeed, followed by
\* GetFontData(hdc, tag, 0, buffer, length) copying the first k bytes: the
\* bytes not copied keep what the heap held
GetFontDataFill(tag, length, k) ==
    IF length = GDI_ERROR THEN <<>>
    ELSE LET data == FontData(tag)
         IN [i \in 1..length |-> IF i <= k THEN data[i] ELSE heap]

\* GetGlyphIndicesW(hdc, &ch, 1, pgi, flags) of gdi32: one glyph index
\* written, the font's glyph for ch or the flag's marker for a missing glyph
GetGlyphIndicesW(ch, flags) ==
    [ret |-> 1,
     pgi |-> IF \E m \in font.bmp : m.ch = ch
             THEN (CHOOSE m \in font.bmp : m.ch = ch).glyph
             ELSE IF flags % 2 = GGI_MARK_NONEXISTING_GLYPHS THEN 65535 ELSE 0]

-----------------------------------------------------------------------------
(* CMAP *)

\* Fields of CMAP_Header, CMAP_EncodingRecord, CMAP_SegmentedCoverage and
\* CMAP_SegmentedCoverage_group, by their offsets in the structs
CMAP_numTables(T) == GET_BE_WORD(LoadWord(T, 2))
CMAP_platformID(T, i) == GET_BE_WORD(LoadWord(T, 4 + 8 * i))
CMAP_encodingID(T, i) == GET_BE_WORD(LoadWord(T, 4 + 8 * i + 2))
CMAP_offset(T, i) == GET_BE_DWORD(LoadDword(T, 4 + 8 * i + 4))
CMAP_format(T, format) == GET_BE_WORD(LoadWord(T, format))
CMAP_nGroups(T, format) == GET_BE_DWORD(LoadDword(T, format + 12))
CMAP_group(format, j) == format + 16 + 12 * j
CMAP_startCharCode(T, group) == GET_BE_DWORD(LoadDword(T, group))
CMAP_endCharCode(T, group) == GET_BE_DWORD(LoadDword(T, group + 4))
CMAP_startGlyphID(T, group) == GET_BE_DWORD(LoadDword(T, group + 8))

\* The loop of load_CMAP_format12_table without the test of the subtable's
\* format: the first platform 3 / encoding 10 record of any format
CMAP_scan_anyformat(T) ==
    LET found == {i \in 0..(CMAP_numTables(T) - 1) :
                    /\ CMAP_platformID(T, i) = 3
                    /\ CMAP_encodingID(T, i) = 10}
    IN IF found = {} THEN NULL
       ELSE Pointer(CMAP_offset(T, CHOOSE i \in found : \A j \in found : i <= j))

\* The loop over the encoding records: the first record of platform 3,
\* encoding 10 whose subtable has format 12
CMAP_scan(T) ==
    LET found == {i \in 0..(CMAP_numTables(T) - 1) :
                    /\ CMAP_platformID(T, i) = 3
                    /\ CMAP_encodingID(T, i) = 10
                    /\ CMAP_format(T, CMAP_offset(T, i)) = 12}
    IN IF found = {} THEN NULL
       ELSE Pointer(CMAP_offset(T, CHOOSE i \in found : \A j \in found : i <= j))

\* load_CMAP_format12_table without the test of psc->CMAP_Table: the table
\* is fetched on every call
load_CMAP_format12_table_refetch(table, length, filled) ==
    IF length # GDI_ERROR
    THEN [CMAP_Table |-> Buffer(filled), ret |-> CMAP_scan(filled), calls |-> 2]
    ELSE [CMAP_Table |-> NULL, ret |-> NULL, calls |-> 1]

\* load_CMAP_format12_table(hdc, psc): table is psc->CMAP_Table on entry,
\* length the result of the length query, filled the buffer after the fill
\* call.  Returns the new psc->CMAP_Table, the function's result and the
\* number of GetFontData calls made.
load_CMAP_format12_table(table, length, filled) ==
    IF ~table.valid
    THEN IF length # GDI_ERROR
         THEN [CMAP_Table |-> Buffer(filled), ret |-> CMAP_scan(filled), calls |-> 2]
         ELSE [CMAP_Table |-> NULL, ret |-> NULL, calls |-> 1]
    ELSE [CMAP_Table |-> table, ret |-> CMAP_scan(table.bytes), calls |-> 0]

\* compare_group with the end of the group left out of it
compare_group_open(T, chr, group) ==
    IF chr < CMAP_startCharCode(T, group) THEN -1
    ELSE IF chr >= CMAP_endCharCode(T, group) THEN 1
    ELSE 0

compare_group(T, chr, group) ==
    IF chr < CMAP_startCharCode(T, group) THEN -1
    ELSE IF chr > CMAP_endCharCode(T, group) THEN 1
    ELSE 0

\* bsearch(&utf32c, base, nmemb, sizeof(CMAP_SegmentedCoverage_group),
\* compare_group) over the elements lo..hi-1
RECURSIVE bsearch(_, _, _, _, _)
bsearch(T, key, base, lo, hi) ==
    IF lo >= hi THEN NULL
    ELSE LET mid == (lo + hi) \div 2
             c == compare_group(T, key, base + 12 * mid)
         IN IF c = 0 THEN Pointer(base + 12 * mid)
            ELSE IF c < 0 THEN bsearch(T, key, base, lo, mid)
            ELSE bsearch(T, key, base, mid + 1, hi)

\* The supplementary plane branch of OpenType_CMAP_GetGlyphIndex
CMAP_lookup(psc, utf32c, flags, length, filled) ==
    LET loaded == IF ~psc.CMAP_format12_Table.valid
                  THEN load_CMAP_format12_table(psc.CMAP_Table, length, filled)
                  ELSE [CMAP_Table |-> psc.CMAP_Table,
                        ret |-> psc.CMAP_format12_Table, calls |-> 0]
        T == loaded.CMAP_Table.bytes
        format == loaded.ret
        notfound == IF flags % 2 = GGI_MARK_NONEXISTING_GLYPHS THEN 65535 ELSE 0
        group == IF format.valid
                 THEN bsearch(T, utf32c, CMAP_group(format.off, 0), 0,
                              CMAP_nGroups(T, format.off))
                 ELSE NULL
    IN [CMAP_Table |-> loaded.CMAP_Table,
        CMAP_format12_Table |-> format,
        calls |-> loaded.calls,
        ret |-> 0,
        pgi |-> IF group.valid
                THEN \* DWORD offset added to the DWORD startGlyphID, stored
                     \* through the LPWORD pgi: the low 16 bits of the sum
                     ((CMAP_startGlyphID(T, group.off) % 65536)
                        + ((utf32c - CMAP_startCharCode(T, group.off)) % 65536))
                     % 65536
                ELSE notfound]

\* OpenType_CMAP_GetGlyphIndex with U+FFFF taken for a supplementary plane
\* character
OpenType_CMAP_GetGlyphIndex_bound(psc, utf32c, flags, length, filled) ==
    IF utf32c < 65535
    THEN LET gdi == GetGlyphIndicesW(utf32c % 65536, flags)
         IN [CMAP_Table |-> psc.CMAP_Table,
             CMAP_format12_Table |-> psc.CMAP_format12_Table,
             calls |-> 0, ret |-> gdi.ret, pgi |-> gdi.pgi]
    ELSE CMAP_lookup(psc, utf32c, flags, length, filled)

\* OpenType_CMAP_GetGlyphIndex(hdc, psc, utf32c, pgi, flags)
OpenType_CMAP_GetGlyphIndex(psc, utf32c, flags, length, filled) ==
    IF utf32c < 65536
    THEN LET gdi == GetGlyphIndicesW(utf32c % 65536, flags)
         IN [CMAP_Table |-> psc.CMAP_Table,
             CMAP_format12_Table |-> psc.CMAP_format12_Table,
             calls |-> 0, ret |-> gdi.ret, pgi |-> gdi.pgi]
    ELSE CMAP_lookup(psc, utf32c, flags, length, filled)

\* The greatest element of a non-empty set of numbers
Max(S) == CHOOSE m \in S : \A x \in S : x <= m

\* How far into the table at T the loop of load_CMAP_format12_table reads:
\* one past the last byte of numTables, of the platformID of every record it
\* visits, of the encodingID where the platformID is 3, and of the offset
\* and the subtable's format where the encodingID is 10 as well.  The loop
\* visits the records up to the first match, or all numTables of them.
CMAP_scan_extent(T) ==
    LET n == CMAP_numTables(T)
        windows == {i \in 0..(n - 1) : CMAP_platformID(T, i) = 3}
        unicode == {i \in windows : CMAP_encodingID(T, i) = 10}
        found == {i \in unicode : CMAP_format(T, CMAP_offset(T, i)) = 12}
        last == IF found = {} THEN n - 1
                ELSE CHOOSE i \in found : \A j \in found : i <= j
    IN Max({4}
           \cup {4 + 8 * i + 2 : i \in {last} \ {-1}}
           \cup {4 + 8 * i + 4 : i \in {j \in windows : j <= last}}
           \cup {4 + 8 * i + 8 : i \in {j \in unicode : j <= last}}
           \cup {CMAP_offset(T, i) + 2 : i \in {j \in unicode : j <= last}})

\* How far into the table compare_group reads for one group: startCharCode,
\* and endCharCode unless the character is below the start
compare_group_extent(T, chr, group) ==
    IF chr < CMAP_startCharCode(T, group) THEN group + 4 ELSE group + 8

\* How far into the table the probes of bsearch read
RECURSIVE bsearch_extent(_, _, _, _, _)
bsearch_extent(T, key, base, lo, hi) ==
    IF lo >= hi THEN 0
    ELSE LET mid == (lo + hi) \div 2
             c == compare_group(T, key, base + 12 * mid)
             here == compare_group_extent(T, key, base + 12 * mid)
         IN IF c = 0 THEN here
            ELSE IF c < 0
            THEN Max({here, bsearch_extent(T, key, base, lo, mid)})
            ELSE Max({here, bsearch_extent(T, key, base, mid + 1, hi)})

\* How far into the cmap table one call of OpenType_CMAP_GetGlyphIndex
\* reads, 0 when it reads nothing of it: the scan of the directory unless
\* the format 12 view is cached, then nGroups, the groups probed by the
\* search, and startCharCode and startGlyphID of the group found.  psc is
\* the cache on entry, r what the call returned.
CMAP_extent(psc, r, utf32c) ==
    IF utf32c < 65536 \/ ~r.CMAP_Table.valid THEN 0
    ELSE LET T == r.CMAP_Table.bytes
             format == r.CMAP_format12_Table
             groups == CMAP_group(format.off, 0)
             group == bsearch(T, utf32c, groups, 0, CMAP_nGroups(T, format.off))
         IN Max({IF psc.CMAP_format12_Table.valid THEN 0 ELSE CMAP_scan_extent(T),
                 IF format.valid
                 THEN Max({format.off + 16,
                           bsearch_extent(T, utf32c, groups, 0,
                                          CMAP_nGroups(T, format.off))})
                 ELSE 0,
                 IF format.valid /\ group.valid THEN group.off + 12 ELSE 0})

-----------------------------------------------------------------------------
(* GDEF *)

\* Fields of GDEF_Header, GDEF_ClassDefFormat1, GDEF_ClassDefFormat2 and
\* GDEF_ClassRangeRecord, by their offsets in the structs
GDEF_GlyphClassDef(T) == GET_BE_WORD(LoadWord(T, 4))
GDEF_ClassFormat(T, cf) == GET_BE_WORD(LoadWord(T, cf))
GDEF_StartGlyph(T, cf1) == GET_BE_WORD(LoadWord(T, cf1 + 2))
GDEF_GlyphCount(T, cf1) == GET_BE_WORD(LoadWord(T, cf1 + 4))
GDEF_ClassValueArray(T, cf1, index) == GET_BE_WORD(LoadWord(T, cf1 + 6 + 2 * index))
GDEF_ClassRangeCount(T, cf2) == GET_BE_WORD(LoadWord(T, cf2 + 2))
GDEF_RangeStart(T, cf2, i) == GET_BE_WORD(LoadWord(T, cf2 + 4 + 6 * i))
GDEF_RangeEnd(T, cf2, i) == GET_BE_WORD(LoadWord(T, cf2 + 4 + 6 * i + 2))
GDEF_RangeClass(T, cf2, i) == GET_BE_WORD(LoadWord(T, cf2 + 4 + 6 * i + 4))

\* The loop over the class range records without its break: the class of
\* the last record that holds the glyph
GDEF_range_scan_last(T, cf2, glyph, top) ==
    LET found == {i \in 0..(top - 1) :
                    /\ glyph >= GDEF_RangeStart(T, cf2, i)
                    /\ glyph <= GDEF_RangeEnd(T, cf2, i)}
    IN IF found = {} THEN 0
       ELSE GDEF_RangeClass(T, cf2, CHOOSE i \in found : \A j \in found : i >= j)

\* The loop over the class range records of a format 2 class definition:
\* the class of the first record that holds the glyph, 0 without one
GDEF_range_scan(T, cf2, glyph, top) ==
    LET found == {i \in 0..(top - 1) :
                    /\ glyph >= GDEF_RangeStart(T, cf2, i)
                    /\ glyph <= GDEF_RangeEnd(T, cf2, i)}
    IN IF found = {} THEN 0
       ELSE GDEF_RangeClass(T, cf2, CHOOSE i \in found : \A j \in found : i <= j)

\* GDEF_get_glyph_class with StartGlyph itself left out of format 1
GDEF_get_glyph_class_above(header, glyph) ==
    IF ~header.valid THEN 0
    ELSE LET T == header.bytes
             offset == GDEF_GlyphClassDef(T)
         IN IF offset = 0 THEN 0
            ELSE IF GDEF_ClassFormat(T, offset) = 1
            THEN IF glyph > GDEF_StartGlyph(T, offset)
                    /\ glyph - GDEF_StartGlyph(T, offset) < GDEF_GlyphCount(T, offset)
                 THEN GDEF_ClassValueArray(T, offset, glyph - GDEF_StartGlyph(T, offset))
                 ELSE 0
            ELSE IF GDEF_ClassFormat(T, offset) = 2
            THEN GDEF_range_scan(T, offset, glyph, GDEF_ClassRangeCount(T, offset))
            ELSE 0

\* GDEF_get_glyph_class(header, glyph)
GDEF_get_glyph_class(header, glyph) ==
    IF ~header.valid THEN 0
    ELSE LET T == header.bytes
             offset == GDEF_GlyphClassDef(T)
         IN IF offset = 0 THEN 0
            ELSE IF GDEF_ClassFormat(T, offset) = 1
            THEN IF glyph >= GDEF_StartGlyph(T, offset)
                    /\ glyph - GDEF_StartGlyph(T, offset) < GDEF_GlyphCount(T, offset)
                 THEN GDEF_ClassValueArray(T, offset, glyph - GDEF_StartGlyph(T, offset))
                 ELSE 0
            ELSE IF GDEF_ClassFormat(T, offset) = 2
            THEN GDEF_range_scan(T, offset, glyph, GDEF_ClassRangeCount(T, offset))
            ELSE 0

\* load_gdef_table(hdc): length is the result of the length query, filled
\* the buffer after the fill call
load_gdef_table(length, filled) ==
    IF length # GDI_ERROR THEN Buffer(filled) ELSE NULL

\* The number of characters of the cluster map that map to glyph i
char_count(pwLogClust, cChars, i) ==
    Cardinality({k \in 0..(cChars - 1) : pwLogClust[k + 1] = i})

\* The switch on the glyph class
ClassProps(class) ==
    IF class = 0 \/ class = BaseGlyph
    THEN [fClusterStart |-> 1, fDiacritic |-> 0, fZeroWidth |-> 0]
    ELSE IF class = LigatureGlyph
    THEN [fClusterStart |-> 1, fDiacritic |-> 0, fZeroWidth |-> 0]
    ELSE IF class = MarkGlyph
    THEN [fClusterStart |-> 0, fDiacritic |-> 1, fZeroWidth |-> 1]
    ELSE IF class = ComponentGlyph
    THEN [fClusterStart |-> 0, fDiacritic |-> 0, fZeroWidth |-> 0]
    ELSE [fClusterStart |-> 1, fDiacritic |-> 0, fZeroWidth |-> 0]

\* The loop body without the test of char_count
GlyphProp_counted(class, count) == ClassProps(class)

\* The body of the loop over the glyphs: the record written for glyph i
GlyphProp(class, count) ==
    IF count = 0
    THEN [ClassProps(class) EXCEPT !.fClusterStart = 0]
    ELSE ClassProps(class)

\* OpenType_GDEF_UpdateGlyphProps(hdc, psc, pwGlyphs, cGlyphs, pwLogClust,
\* cChars, pGlyphProp): table is psc->GDEF_Table on entry.  Returns the new
\* psc->GDEF_Table, the number of GetFontData calls, the class found for
\* each glyph and the caller's array after the call.
OpenType_GDEF_UpdateGlyphProps(table, pwGlyphs, cGlyphs, pwLogClust, cChars, pGlyphProp, length, filled) ==
    LET loaded == IF ~table.valid THEN load_gdef_table(length, filled) ELSE table
        class(i) == GDEF_get_glyph_class(loaded, pwGlyphs[i + 1])
    IN [GDEF_Table |-> loaded,
        calls |-> IF table.valid THEN 0 ELSE IF length # GDI_ERROR THEN 2 ELSE 1,
        classes |-> [i \in 1..cGlyphs |-> class(i - 1)],
        pGlyphProp |-> [i \in 1..Len(pGlyphProp) |->
                          IF i - 1 < cGlyphs
                          THEN GlyphProp(class(i - 1),
                                         char_count(pwLogClust, cChars, i - 1))
                          ELSE pGlyphProp[i]]]

\* How far into the table at T the loop over the class range records reads:
\* one past the last byte of the Start of every record it visits, of the
\* End where the glyph is not below the Start, and of the Class of the
\* record that holds the glyph.  The loop visits the records up to the
\* first that holds the glyph, or all top of them.
GDEF_range_scan_extent(T, cf2, glyph, top) ==
    LET found == {i \in 0..(top - 1) :
                    /\ glyph >= GDEF_RangeStart(T, cf2, i)
                    /\ glyph <= GDEF_RangeEnd(T, cf2, i)}
        last == IF found = {} THEN top - 1
                ELSE CHOOSE i \in found : \A j \in found : i <= j
        above == {i \in 0..last : glyph >= GDEF_RangeStart(T, cf2, i)}
    IN Max({cf2 + 4}
           \cup {cf2 + 4 + 6 * i + 2 : i \in {last} \ {-1}}
           \cup {cf2 + 4 + 6 * i + 4 : i \in above}
           \cup {cf2 + 4 + 6 * i + 6 : i \in found \cap {last}})

\* How far into the GDEF table one call of GDEF_get_glyph_class reads, 0
\* when it reads nothing of it: GlyphClassDef, then ClassFormat, then in
\* format 1 StartGlyph, GlyphCount and the class value of the glyph, in
\* format 2 ClassRangeCount and the range records
GDEF_extent(header, glyph) ==
    IF ~header.valid THEN 0
    ELSE LET T == header.bytes
             offset == GDEF_GlyphClassDef(T)
         IN IF offset = 0 THEN 6
            ELSE IF GDEF_ClassFormat(T, offset) = 1
            THEN IF glyph >= GDEF_StartGlyph(T, offset)
                 THEN IF glyph - GDEF_StartGlyph(T, offset) < GDEF_GlyphCount(T, offset)
                      THEN Max({offset + 6,
                                offset + 6 + 2 * (glyph - GDEF_StartGlyph(T, offset)) + 2})
                      ELSE offset + 6
                 ELSE Max({6, offset + 4})
            ELSE IF GDEF_ClassFormat(T, offset) = 2
            THEN Max({6, GDEF_range_scan_extent(T, offset, glyph,
                                                GDEF_ClassRangeCount(T, offset))})
            ELSE Max({6, offset + 2})

\* How far into the GDEF table one call of OpenType_GDEF_UpdateGlyphProps
\* reads: the furthest of the reads made for its glyphs.  loaded is
\* psc->GDEF_Table after the load.
GDEF_UpdateGlyphProps_extent(loaded, pwGlyphs, cGlyphs) ==
    Max({0} \cup {GDEF_extent(loaded, pwGlyphs[i + 1]) : i \in 0..(cGlyphs - 1)})

-----------------------------------------------------------------------------
(* The requests of the shaping engine *)

\* What a fetch attempt that made n GetFontData calls and copied k of
\* length bytes came to
FetchOutcome(n, length, k, before) ==
    IF n = 0 THEN before
    ELSE IF n = 1 THEN "lenfail"
    ELSE IF k = length THEN "ok" ELSE "fillfail"

\* The caller's SCRIPT_GLYPHPROP array before the call: nothing written yet
Unwritten == [fClusterStart |-> 2, fDiacritic |-> 2, fZeroWidth |-> 2]

\* The latest request: op and its arguments (utf32c, flags; glyphs, clust),
\* the table it needs (tag), whether the cache held that table on entry
\* (hit), how the previous fetch of it had ended (prior), the GetFontData
\* calls it made (ncalls), how far into the table it read (extent) and its
\* results (ret, pgi; classes, props)
NoOp ==
    [op |-> "none", tag |-> "none", hit |-> FALSE, prior |-> "none",
     ncalls |-> 0, extent |-> 0, utf32c |-> 0,
     flags |-> 0, ret |-> 0, pgi |-> 0, glyphs |-> <<>>, clust |-> <<>>,
     classes |-> <<>>, props |-> <<>>]

\* The shaping engine asks for the glyph of a character
Resolve(utf32c, flags) ==
    \E length \in LengthAnswers("cmap", utf32c < 65536 \/ CMAP_Table.valid) :
      \E k \in FillAnswers(length, utf32c < 65536 \/ CMAP_Table.valid) :
        \E r \in {OpenType_CMAP_GetGlyphIndex(
                     [CMAP_Table |-> CMAP_Table,
                      CMAP_format12_Table |-> CMAP_format12_Table],
                     utf32c, flags, length, GetFontDataFill("cmap", length, k))} :
           /\ calls["cmap"] + r.calls <= MaxCalls
           /\ CMAP_Table' = r.CMAP_Table
           /\ CMAP_format12_Table' = r.CMAP_format12_Table
           /\ calls' = [calls EXCEPT !["cmap"] = @ + r.calls]
           /\ lastFetch' = [lastFetch EXCEPT
                              !["cmap"] = FetchOutcome(r.calls, length, k, @)]
           /\ lastOp' = [NoOp EXCEPT
                           !.op = "resolve",
                           !.tag = IF utf32c < 65536 THEN "none" ELSE "cmap",
                           !.hit = CMAP_Table.valid,
                           !.prior = IF utf32c < 65536 THEN "none"
                                     ELSE lastFetch["cmap"],
                           !.ncalls = r.calls,
                           !.extent = CMAP_extent(
                               [CMAP_Table |-> CMAP_Table,
                                CMAP_format12_Table |-> CMAP_format12_Table],
                               r, utf32c),
                           !.utf32c = utf32c, !.flags = flags,
                           !.ret = r.ret, !.pgi = r.pgi]
           /\ UNCHANGED <<font, heap, faults, GDEF_Table>>

\* The shaping engine asks for the properties of a run of glyphs
Annotate(pwGlyphs, pwLogClust) ==
    \E length \in LengthAnswers("GDEF", GDEF_Table.valid) :
      \E k \in FillAnswers(length, GDEF_Table.valid) :
        \E r \in {OpenType_GDEF_UpdateGlyphProps(
                     GDEF_Table, pwGlyphs, Len(pwGlyphs), pwLogClust,
                     Len(pwLogClust), [i \in 1..MaxGlyphs |-> Unwritten],
                     length, GetFontDataFill("GDEF", length, k))} :
           /\ calls["GDEF"] + r.calls <= MaxCalls
           /\ GDEF_Table' = r.GDEF_Table
           /\ calls' = [calls EXCEPT !["GDEF"] = @ + r.calls]
           /\ lastFetch' = [lastFetch EXCEPT
                              !["GDEF"] = FetchOutcome(r.calls, length, k, @)]
           /\ lastOp' = [NoOp EXCEPT
                           !.op = "annotate", !.tag = "GDEF",
                           !.hit = GDEF_Table.valid,
                           !.prior = lastFetch["GDEF"],
                           !.ncalls = r.calls,
                           !.extent = GDEF_UpdateGlyphProps_extent(
                               r.GDEF_Table, pwGlyphs, Len(pwGlyphs)),
                           !.glyphs = pwGlyphs, !.clust = pwLogClust,
                           !.classes = r.classes, !.props = r.pGlyphProp]
           /\ UNCHANGED <<font, heap, faults, CMAP_Table, CMAP_format12_Table>>

-----------------------------------------------------------------------------
(* Fonts and requests of the model *)

HeapBytes == {0, 1}

SeqsUpTo(S, n) == UNION {[1..m -> S] : m \in 0..n}

Group(s, e, g) == [startCharCode |-> s, endCharCode |-> e, startGlyphID |-> g]
Record(p, e, f, gs) == [platformID |-> p, encodingID |-> e, format |-> f, groups |-> gs]
Cmap(records) == [present |-> TRUE, records |-> records]
NoCmap == [present |-> FALSE, records |-> <<>>]

Range(s, e, c) == [Start |-> s, End |-> e, Class |-> c]
ClassDef(f, start, classes, ranges) ==
    [present |-> TRUE, classDef |-> TRUE, format |-> f, startGlyph |-> start,
     classes |-> classes, ranges |-> ranges]
NoClassDef ==
    [present |-> TRUE, classDef |-> FALSE, format |-> 0, startGlyph |-> 0,
     classes |-> <<>>, ranges |-> <<>>]
NoGdef == [NoClassDef EXCEPT !.present = FALSE]

\* U+10000..U+10002 -> glyphs 5..7; U+10400..U+10401 -> glyphs 65535, 65536
PlaneOne == <<Group(65536, 65538, 5), Group(66560, 66561, 65535)>>

\* The fonts of the cache protocol: without tables, with a format 12
\* subtable alone, behind a format 4 subtable, behind a platform 3 / encoding
\* 10 subtable of another format, and without a usable subtable
Fonts ==
    { Font(NoCmap, NoGdef, {}),
      Font(Cmap(<<Record(3, 10, 12, PlaneOne)>>),
           ClassDef(1, 10, <<BaseGlyph, MarkGlyph>>, <<>>),
           {[ch |-> 65, glyph |-> 36]}),
      Font(Cmap(<<Record(3, 1, 4, <<>>), Record(3, 10, 12, PlaneOne)>>),
           ClassDef(2, 0, <<>>, <<Range(1, 5, BaseGlyph), Range(3, 3, MarkGlyph)>>),
           {[ch |-> 65, glyph |-> 36], [ch |-> 65535, glyph |-> 1]}),
      Font(Cmap(<<Record(3, 10, 4, <<>>), Record(3, 10, 12, PlaneOne)>>),
           ClassDef(2, 0, <<>>, <<Range(10, 10, ComponentGlyph), Range(11, 11, 7)>>),
           {}),
      Font(Cmap(<<Record(3, 1, 4, <<>>), Record(0, 4, 12, PlaneOne)>>),
           NoClassDef,
           {[ch |-> 65, glyph |-> 36]}),
      Font(Cmap(<<Record(3, 10, 13, PlaneOne)>>),
           ClassDef(3, 0, <<>>, <<>>),
           {[ch |-> 65, glyph |-> 36]}) }

Flags == {0, GGI_MARK_NONEXISTING_GLYPHS}
Codepoints == {65, 65535, 65536, 65538, 65539, 66561}
Runs ==
    { <<<<>>, <<>>>>, <<<<3>>, <<0>>>>, <<<<10, 11>>, <<0, 0>>>>,
      <<<<11, 12>>, <<1, 0>>>> }

\* The fonts of the format 12 lookup: one platform 3 / encoding 10 subtable
\* of format 12 with any groups, in any order
CandidateGroups ==
    { Group(65536, 65538, 5), Group(65538, 65540, 9), Group(65539, 65539, 65535),
      Group(66560, 66561, 65535) }
SuppCodepoints == {65536, 65537, 65538, 65539, 65540, 66560, 66561, 66562}
CmapFonts ==
    { Font(Cmap(<<Record(3, 1, 4, <<>>), Record(3, 10, 12, gs)>>), NoGdef, {}) :
        gs \in SeqsUpTo(CandidateGroups, MaxGroups) }

\* The fonts of the glyph classification: a class definition of format 1
\* with any class values, or of format 2 with any ranges, in any order
ClassValues == {0, BaseGlyph, LigatureGlyph, MarkGlyph, ComponentGlyph, 7}
CandidateRanges ==
    { Range(1, 5, BaseGlyph), Range(3, 3, MarkGlyph), Range(5, 7, MarkGlyph),
      Range(8, 8, LigatureGlyph), Range(7, 2, ComponentGlyph) }
GlyphIds == {0, 1, 3, 4, 5, 6, 8, 9, 10, 11, 12, 65535}
GdefFonts ==
    { Font(NoCmap, ClassDef(1, start, cs, <<>>), {}) :
        start \in {0, 10}, cs \in SeqsUpTo(ClassValues, MaxClasses) }
    \cup { Font(NoCmap, ClassDef(2, 0, <<>>, rs), {}) :
             rs \in SeqsUpTo(CandidateRanges, MaxRanges) }

\* The fonts and runs of the glyph properties: between them the fonts give
\* the glyphs 10 and 11 the classes 0, Base, Ligature, Mark, Component and 7
PropFonts ==
    { Font(NoCmap, NoGdef, {}),
      Font(NoCmap, ClassDef(1, 10, <<BaseGlyph, MarkGlyph>>, <<>>), {}),
      Font(NoCmap, ClassDef(1, 10, <<LigatureGlyph, ComponentGlyph>>, <<>>), {}),
      Font(NoCmap, ClassDef(1, 10, <<7, BaseGlyph>>, <<>>), {}) }
PropGlyphs == {10, 11}
ClusterMaps == {<<>>} \cup [1..MaxChars -> 0..(MaxGlyphs - 1)]

-----------------------------------------------------------------------------
(* Specifications *)

Fresh ==
    /\ heap \in HeapBytes
    /\ CMAP_Table = NULL
    /\ CMAP_format12_Table = NULL
    /\ GDEF_Table = NULL
    /\ calls = [t \in Tags |-> 0]
    /\ lastFetch = [t \in Tags |-> "none"]
    /\ lastOp = NoOp

\* The cache protocol: any font, a provider that can fail
Init == font \in Fonts /\ faults = TRUE /\ Fresh

Next ==
    \/ \E utf32c \in Codepoints, flags \in Flags : Resolve(utf32c, flags)
    \/ \E run \in Runs : Annotate(run[1], run[2])

Spec == Init /\ [][Next]_vars

\* The format 12 lookup on a table that was fetched whole
InitCMAP == font \in CmapFonts /\ faults = FALSE /\ Fresh
NextCMAP == \E utf32c \in SuppCodepoints, flags \in Flags : Resolve(utf32c, flags)
SpecCMAP == InitCMAP /\ [][NextCMAP]_vars

\* The glyph classification on a table that was fetched whole
InitGDEF == font \in GdefFonts /\ faults = FALSE /\ Fresh
NextGDEF == \E glyph \in GlyphIds : Annotate(<<glyph>>, <<0>>)
SpecGDEF == InitGDEF /\ [][NextGDEF]_vars

\* The glyph properties of a run
InitProps == font \in PropFonts /\ faults = FALSE /\ Fresh
NextProps ==
    \E pwGlyphs \in SeqsUpTo(PropGlyphs, MaxGlyphs) :
      \E pwLogClust \in ClusterMaps :
        Annotate(pwGlyphs, pwLogClust)
SpecProps == InitProps /\ [][NextProps]_vars

\* Malformed fonts: a table cut short, so that the offsets and counts stored
\* in its first n bytes address bytes the table does not have
Truncated(f, tag, n) == [f EXCEPT !.data[tag] = SubSeq(@, 1, n)]
WholeFonts ==
    { Font(Cmap(<<Record(3, 10, 12, PlaneOne)>>),
           ClassDef(1, 10, <<BaseGlyph, MarkGlyph>>, <<>>), {}),
      Font(Cmap(<<Record(3, 1, 4, <<>>), Record(3, 10, 12, PlaneOne)>>),
           ClassDef(2, 0, <<>>, <<Range(1, 5, BaseGlyph), Range(3, 3, MarkGlyph)>>),
           {}) }
MalformedFonts ==
    WholeFonts
    \cup UNION {{Truncated(f, tag, n) : n \in 0..(Len(f.data[tag]) - 1)} :
                 f \in WholeFonts, tag \in Tags}
MalformedCodepoints == {65536, 65539, 66561}
MalformedGlyphs == {3, 6, 10, 11, 12}

\* Requests against a font that may be malformed
InitMalformed == font \in MalformedFonts /\ faults = FALSE /\ Fresh
NextMalformed ==
    \/ \E utf32c \in MalformedCodepoints, flags \in Flags : Resolve(utf32c, flags)
    \/ \E glyph \in MalformedGlyphs : Annotate(<<glyph>>, <<0>>)
SpecMalformed == InitMalformed /\ [][NextMalformed]_vars

-----------------------------------------------------------------------------
(* Properties *)

Table(t) == IF t = "cmap" THEN CMAP_Table ELSE GDEF_Table
Failed == {"lenfail", "fillfail"}
NotFound(flags) == IF flags = GGI_MARK_NONEXISTING_GLYPHS THEN 65535 ELSE 0

\* C1: once a fetch of a tag has succeeded (a length query and a fill, two
\* calls), no later request replaces or clears the stored buffer of that
\* tag or calls the provider for it again, whatever requests are interleaved.
C1_FetchedOnce ==
    [][\A t \in Tags :
          /\ (lastFetch[t] # "ok" /\ lastFetch'[t] = "ok")
                => /\ calls'[t] = calls[t] + 2
                   /\ Table(t)' = Buffer(FontData(t))
          /\ lastFetch[t] = "ok"
                => /\ Table(t)' = Table(t)
                   /\ calls'[t] = calls[t]
                   /\ lastFetch'[t] = "ok"]_vars

\* Both tables fetched, and the latest request served from the cache
C1_Witness ==
    /\ lastFetch["cmap"] = "ok" /\ lastFetch["GDEF"] = "ok"
    /\ lastOp.op = "resolve" /\ lastOp.tag = "cmap"
    /\ lastOp.hit /\ lastOp.ncalls = 0
    /\ CMAP_Table = Buffer(FontData("cmap"))

\* C2: after a failed fetch of a tag the cache holds nothing for the tag,
\* and a request that needs the tag after a failed fetch fetches again.
C2_FailureNotCached ==
    /\ \A t \in Tags : lastFetch[t] \in Failed => ~Table(t).valid
    /\ (lastOp.tag \in Tags /\ lastOp.prior \in Failed) => lastOp.ncalls >= 1

\* The part of C2 that holds: a failed length query leaves the cache empty
\* and the next request asks again
C2_LengthFailureNotCached ==
    /\ \A t \in Tags : lastFetch[t] = "lenfail" => ~Table(t).valid
    /\ (lastOp.tag \in Tags /\ lastOp.prior = "lenfail") => lastOp.ncalls >= 1

\* C3: a request whose fetch failed, at the length query or at the fill,
\* stores nothing for the tag and sees the table as absent.
C3_EitherCallFails ==
    (lastOp.tag \in Tags /\ lastOp.ncalls > 0 /\ lastFetch[lastOp.tag] \in Failed)
        => /\ ~Table(lastOp.tag).valid
           /\ lastOp.op = "resolve" => lastOp.pgi = NotFound(lastOp.flags)
           /\ lastOp.op = "annotate" => \A i \in 1..Len(lastOp.classes) : lastOp.classes[i] = 0

\* The part of C3 that holds: a failed length query makes one call, stores
\* nothing and shows the table absent
C3_LengthQueryFails ==
    (lastOp.tag \in Tags /\ lastOp.ncalls > 0 /\ lastFetch[lastOp.tag] = "lenfail")
        => /\ lastOp.ncalls = 1
           /\ ~Table(lastOp.tag).valid
           /\ lastOp.op = "resolve" => lastOp.pgi = NotFound(lastOp.flags)
           /\ lastOp.op = "annotate" => \A i \in 1..Len(lastOp.classes) : lastOp.classes[i] = 0

\* C4: a request for a codepoint below 0x10000 returns what the BMP lookup
\* of gdi32 returns for the codepoint and the flags, calls the provider for
\* no table and leaves the three cache fields as they were.
C4_BmpDelegates ==
    [][(lastOp'.op = "resolve" /\ lastOp'.utf32c < 65536)
          => /\ lastOp'.pgi = GetGlyphIndicesW(lastOp'.utf32c, lastOp'.flags).pgi
             /\ lastOp'.ret = GetGlyphIndicesW(lastOp'.utf32c, lastOp'.flags).ret
             /\ lastOp'.ncalls = 0
             /\ calls' = calls
             /\ CMAP_Table' = CMAP_Table
             /\ CMAP_format12_Table' = CMAP_format12_Table
             /\ GDEF_Table' = GDEF_Table]_vars

\* A BMP request, answered with a glyph of the font, on a context whose
\* cmap was never asked for
C4_Witness ==
    /\ lastOp.op = "resolve" /\ lastOp.utf32c = 65535 /\ lastOp.pgi = 1
    /\ calls["cmap"] = 0 /\ ~CMAP_Table.valid /\ GDEF_Table.valid

\* The segment groups of the subtable the cached view points at, as the
\* font describes them (the cmap table in the cache is the font's)
ViewGroups ==
    LET rs == font.cmap.records
    IN rs[CHOOSE i \in 1..Len(rs) :
            SubtableOffset(rs, i) = CMAP_format12_Table.off].groups

Holds(g, c) == g.startCharCode <= c /\ c <= g.endCharCode

\* Ascending by startCharCode, no two groups sharing a codepoint
SortedGroups(gs) ==
    \A i \in 1..Len(gs), j \in 1..Len(gs) :
        i < j => /\ gs[i].startCharCode < gs[j].startCharCode
                 /\ gs[i].endCharCode < gs[j].startCharCode

\* The linear scan: the first group in stored order that holds c
LinearScan(gs, c) ==
    gs[CHOOSE i \in 1..Len(gs) :
          Holds(gs[i], c) /\ \A j \in 1..(i - 1) : ~Holds(gs[j], c)]

\* A supplementary plane request answered from a format 12 view of the
\* font's own cmap table whose groups are sorted and one of which holds the
\* codepoint
C5_Case ==
    /\ lastOp.op = "resolve" /\ lastOp.utf32c >= 65536
    /\ lastFetch["cmap"] = "ok" /\ CMAP_format12_Table.valid
    /\ SortedGroups(ViewGroups)
    /\ \E i \in 1..Len(ViewGroups) : Holds(ViewGroups[i], lastOp.utf32c)

\* C5 as stated: the glyph returned is the start glyph of the group that
\* holds the codepoint plus the distance of the codepoint from its start.
C5_GlyphIsSum ==
    C5_Case =>
        LET g == LinearScan(ViewGroups, lastOp.utf32c)
        IN lastOp.pgi = g.startGlyphID + (lastOp.utf32c - g.startCharCode)

\* C5 (amended): on sorted, non-overlapping groups the binary search finds
\* the group a linear scan finds, and the glyph returned is the low 16 bits
\* of its start glyph plus the distance of the codepoint from its start: the
\* sum itself whenever the sum is at most 0xFFFF.
C5_GlyphIsSumMod16 ==
    C5_Case =>
        LET g == LinearScan(ViewGroups, lastOp.utf32c)
            sum == g.startGlyphID + (lastOp.utf32c - g.startCharCode)
        IN /\ lastOp.pgi = sum % 65536
           /\ sum <= 65535 => lastOp.pgi = sum
           /\ lastOp.ret = 0

\* A request served from an already cached view of two sorted groups, for
\* the last codepoint of the second group
C5_Witness ==
    /\ C5_Case /\ lastOp.hit /\ lastOp.ncalls = 0
    /\ Len(ViewGroups) >= 2
    /\ ViewGroups[1] = Group(65536, 65538, 5)
    /\ ViewGroups[2] = Group(65539, 65539, 65535)
    /\ lastOp.utf32c = 65539 /\ lastOp.pgi = 65535

\* The platform 3 / encoding 10 records of the font's cmap table whose
\* subtable has format 12
Format12Records ==
    {i \in 1..Len(font.cmap.records) :
        /\ font.cmap.records[i].platformID = 3
        /\ font.cmap.records[i].encodingID = 10
        /\ font.cmap.records[i].format = 12}

\* The cases of C6: no cmap table or a failed fetch, no platform 3 /
\* encoding 10 record of format 12, no group that holds the codepoint
C6_Case ==
    /\ lastOp.op = "resolve" /\ lastOp.utf32c >= 65536
    /\ \/ ~font.cmap.present
       \/ lastFetch["cmap"] # "ok"
       \/ Format12Records = {}
       \/ \A i \in Format12Records :
            \A j \in 1..Len(font.cmap.records[i].groups) :
               ~Holds(font.cmap.records[i].groups[j], lastOp.utf32c)

\* C6: in each of these cases the request returns the not-found value of
\* its flags, 0xFFFF or 0, and reports no error.
C6_NotFound ==
    C6_Case => (lastOp.pgi = NotFound(lastOp.flags) /\ lastOp.ret = 0)

\* The part of C6 that holds: the same, the fetch having failed at the
\* length query if it failed
C6_NotFoundUnlessFillFailed ==
    (C6_Case /\ lastFetch["cmap"] # "fillfail")
        => (lastOp.pgi = NotFound(lastOp.flags) /\ lastOp.ret = 0)

\* The class the font's class definition gives a glyph in format 1
Format1Class(d, glyph) ==
    IF glyph >= d.startGlyph /\ glyph - d.startGlyph < Len(d.classes)
    THEN d.classes[glyph - d.startGlyph + 1]
    ELSE 0

\* The class of the first range in stored order that holds the glyph
RECURSIVE FirstRangeClass(_, _)
FirstRangeClass(ranges, glyph) ==
    IF ranges = <<>> THEN 0
    ELSE IF Head(ranges).Start <= glyph /\ glyph <= Head(ranges).End
    THEN Head(ranges).Class
    ELSE FirstRangeClass(Tail(ranges), glyph)

\* An annotate request classifying from the font's own GDEF table
Classified(format) ==
    /\ lastOp.op = "annotate" /\ lastFetch["GDEF"] = "ok"
    /\ font.gdef.classDef /\ font.gdef.format = format

\* C7: class definition format 1: a glyph from StartGlyph up to, not
\* including, StartGlyph + GlyphCount has the class stored at its index,
\* every other glyph is Unclassified.
C7_Format1 ==
    Classified(1) =>
        \A i \in 1..Len(lastOp.glyphs) :
            lastOp.classes[i] = Format1Class(font.gdef, lastOp.glyphs[i])

\* classes <<Base, Mark>> from glyph 10: glyph 11 is a Mark
C7_Witness ==
    /\ Classified(1)
    /\ font.gdef.startGlyph = 10 /\ font.gdef.classes = <<BaseGlyph, MarkGlyph>>
    /\ lastOp.glyphs = <<11>> /\ lastOp.classes = <<MarkGlyph>>

\* C8: class definition format 2: a glyph has the class of the first range
\* in stored order that holds it, sorted or not, overlapping or not, and is
\* Unclassified when no range holds it.
C8_Format2 ==
    Classified(2) =>
        \A i \in 1..Len(lastOp.glyphs) :
            lastOp.classes[i] = FirstRangeClass(font.gdef.ranges, lastOp.glyphs[i])

\* ranges (1,5,Base), (3,3,Mark): glyph 3 is a Base
C8_Witness ==
    /\ Classified(2)
    /\ font.gdef.ranges = <<Range(1, 5, BaseGlyph), Range(3, 3, MarkGlyph)>>
    /\ lastOp.glyphs = <<3>> /\ lastOp.classes = <<BaseGlyph>>

\* C9: without a GDEF table or after a failed fetch, with a class definition
\* offset of zero and with a class format other than 1 and 2, every glyph is
\* Unclassified and annotate still writes a record for every glyph.
C9_Unclassified ==
    (/\ lastOp.op = "annotate"
     /\ \/ ~font.gdef.present
        \/ lastFetch["GDEF"] # "ok"
        \/ ~font.gdef.classDef
        \/ font.gdef.format \notin {1, 2})
        => /\ \A i \in 1..Len(lastOp.glyphs) : lastOp.classes[i] = 0
           /\ \A i \in 1..Len(lastOp.glyphs) : lastOp.props[i] # Unwritten

\* The part of C9 that holds: the same, the fetch having failed at the
\* length query if it failed
C9_UnclassifiedUnlessFillFailed ==
    (/\ lastOp.op = "annotate"
     /\ lastFetch["GDEF"] # "fillfail"
     /\ \/ ~font.gdef.present
        \/ lastFetch["GDEF"] # "ok"
        \/ ~font.gdef.classDef
        \/ font.gdef.format \notin {1, 2})
        => /\ \A i \in 1..Len(lastOp.glyphs) : lastOp.classes[i] = 0
           /\ \A i \in 1..Len(lastOp.glyphs) : lastOp.props[i] # Unwritten

\* The characters of the latest run whose cluster map entry is glyph i
\* (counted from 0)
CharsOf(i) == {k \in 1..Len(lastOp.clust) : lastOp.clust[k] = i}

\* C10: annotate writes one record per glyph, in glyph order, and nothing
\* else; diacritic and zero width are set exactly for a Mark; cluster start
\* is set exactly when a character maps to the glyph and the glyph is
\* neither a Mark nor a Component.
C10_Props ==
    lastOp.op = "annotate" =>
        /\ Len(lastOp.classes) = Len(lastOp.glyphs)
        /\ \A i \in 1..Len(lastOp.props) :
             IF i <= Len(lastOp.glyphs)
             THEN /\ lastOp.props[i].fDiacritic
                        = (IF lastOp.classes[i] = MarkGlyph THEN 1 ELSE 0)
                  /\ lastOp.props[i].fZeroWidth
                        = (IF lastOp.classes[i] = MarkGlyph THEN 1 ELSE 0)
                  /\ lastOp.props[i].fClusterStart
                        = (IF CharsOf(i - 1) # {}
                              /\ lastOp.classes[i] \notin {MarkGlyph, ComponentGlyph}
                           THEN 1 ELSE 0)
             ELSE lastOp.props[i] = Unwritten

\* A Base glyph no character maps to, after a glyph of unknown class that
\* starts the cluster of two characters
C10_Witness ==
    /\ lastOp.op = "annotate"
    /\ lastOp.classes = <<7, BaseGlyph>> /\ lastOp.clust = <<0, 0>>
    /\ lastOp.props[1].fClusterStart = 1 /\ lastOp.props[2].fClusterStart = 0

\* The cmap table in T stores a count or an offset that addresses bytes past
\* its end: the directory of numTables records, or the subtable of a
\* platform 3 / encoding 10 record, or the nGroups groups of one of format 12
CMAP_overrun(T) ==
    IF 4 > Len(T) \/ 4 + 8 * CMAP_numTables(T) > Len(T) THEN TRUE
    ELSE \E i \in 0..(CMAP_numTables(T) - 1) :
            /\ CMAP_platformID(T, i) = 3
            /\ CMAP_encodingID(T, i) = 10
            /\ \/ CMAP_offset(T, i) + 2 > Len(T)
               \/ /\ CMAP_format(T, CMAP_offset(T, i)) = 12
                  /\ \/ CMAP_offset(T, i) + 16 > Len(T)
                     \/ CMAP_offset(T, i) + 16
                           + 12 * CMAP_nGroups(T, CMAP_offset(T, i)) > Len(T)

\* The GDEF table in T stores a count or an offset that addresses bytes past
\* its end: the class definition, its GlyphCount class values or its
\* ClassRangeCount range records
GDEF_overrun(T) ==
    IF 6 > Len(T) THEN TRUE
    ELSE LET offset == GDEF_GlyphClassDef(T)
         IN IF offset = 0 THEN FALSE
            ELSE IF offset + 2 > Len(T) THEN TRUE
            ELSE IF GDEF_ClassFormat(T, offset) = 1
            THEN \/ offset + 6 > Len(T)
                 \/ offset + 6 + 2 * GDEF_GlyphCount(T, offset) > Len(T)
            ELSE IF GDEF_ClassFormat(T, offset) = 2
            THEN \/ offset + 4 > Len(T)
                 \/ offset + 4 + 6 * GDEF_ClassRangeCount(T, offset) > Len(T)
            ELSE FALSE

\* A request that read the cached table of its tag
ReadTable == lastOp.tag \in Tags /\ Table(lastOp.tag).valid

\* C11: every read of resolve and classify lies inside the fetched buffer
\* (offset + field size <= fetched length), and where an encoding record
\* offset, numTables, nGroups, GlyphCount, ClassRangeCount or the class
\* definition offset addresses bytes past the end of the buffer, resolve
\* returns the not-found value and classify returns Unclassified.
C11_FailClosed ==
    /\ ReadTable => lastOp.extent <= Len(Table(lastOp.tag).bytes)
    /\ (/\ lastOp.op = "resolve" /\ ReadTable
        /\ CMAP_overrun(CMAP_Table.bytes))
          => lastOp.pgi = NotFound(lastOp.flags)
    /\ (/\ lastOp.op = "annotate" /\ ReadTable
        /\ GDEF_overrun(GDEF_Table.bytes))
          => \A i \in 1..Len(lastOp.glyphs) : lastOp.classes[i] = 0

\* The part of C11 that holds: a request on a table whose offsets and counts
\* stay inside the buffer reads inside the buffer
C11_InBoundsWhenWellFormed ==
    (/\ ReadTable
     /\ lastOp.tag = "cmap" => ~CMAP_overrun(CMAP_Table.bytes)
     /\ lastOp.tag = "GDEF" => ~GDEF_overrun(GDEF_Table.bytes))
        => lastOp.extent <= Len(Table(lastOp.tag).bytes)

\* The view the directory of the cmap table in T stands for: the subtable of
\* the first record, in stored order, with platformID 3 and encodingID 10
\* whose subtable has format 12; NULL without such a record
Usable(T, i) ==
    /\ CMAP_platformID(T, i) = 3
    /\ CMAP_encodingID(T, i) = 10
    /\ CMAP_format(T, CMAP_offset(T, i)) = 12
DerivedView(T) ==
    IF \E i \in 0..(CMAP_numTables(T) - 1) : Usable(T, i)
    THEN Pointer(CMAP_offset(T, CHOOSE i \in 0..(CMAP_numTables(T) - 1) :
                                   /\ Usable(T, i)
                                   /\ \A j \in 0..(i - 1) : ~Usable(T, j)))
    ELSE NULL

\* The view and the raw table at one moment: a view is a view of the cached
\* table, and with the table cached the view is the derived one, unset when
\* the table has no usable record; where the cached bytes are the font's,
\* it points at the font's first usable subtable
C12_ViewOfTable ==
    /\ CMAP_format12_Table.valid => CMAP_Table.valid
    /\ CMAP_Table.valid => CMAP_format12_Table = DerivedView(CMAP_Table.bytes)
    /\ (CMAP_Table.valid /\ lastFetch["cmap"] = "ok")
          => IF Format12Records = {} THEN ~CMAP_format12_Table.valid
             ELSE /\ CMAP_format12_Table.valid
                  /\ CMAP_format12_Table.off
                        = SubtableOffset(font.cmap.records,
                                         CHOOSE i \in Format12Records :
                                            \A j \in Format12Records : i <= j)

\* One step: a view that is set stays as it is; a supplementary plane
\* resolve that finds the table cached and the view unset makes no provider
\* call and reads the directory again, up to its last record
C12_ViewStep ==
    /\ CMAP_format12_Table.valid => CMAP_format12_Table' = CMAP_format12_Table
    /\ (/\ CMAP_Table.valid /\ ~CMAP_format12_Table.valid
        /\ lastOp'.op = "resolve" /\ lastOp'.utf32c >= 65536)
          => /\ lastOp'.ncalls = 0 /\ calls' = calls
             /\ ~CMAP_format12_Table'.valid
             /\ lastOp'.extent >= 4
             /\ lastFetch["cmap"] = "ok"
                   => lastOp'.extent >= 4 + 8 * (Len(font.cmap.records) - 1) + 2

\* C12: whenever the format 12 view is set the raw cmap table is cached and
\* the view is the one derived from it (the first record in stored order
\* with platformID 3 and encodingID 10 whose subtable has format 12); once
\* set the view never changes; while the table is cached without such a
\* record the view stays unset and every supplementary plane resolve scans
\* the directory again without a provider call.
C12_ViewDerived == []C12_ViewOfTable /\ [][C12_ViewStep]_vars

\* A view found behind a platform 3 / encoding 10 record of format 4, used
\* again by a later resolve that made no provider call
C12_Witness ==
    /\ CMAP_format12_Table.valid /\ lastFetch["cmap"] = "ok"
    /\ font.cmap.records[1].encodingID = 10 /\ font.cmap.records[1].format = 4
    /\ lastOp.op = "resolve" /\ lastOp.utf32c >= 65536
    /\ lastOp.hit /\ lastOp.ncalls = 0

====
